---- MODULE Spec2Model ----
(***************************************************************************)
(* Range aggregation over a sorted, time-stamped dataset (src/app.py):     *)
(* get_index_by_date (memoised binary search), get_dataset (aggregation    *)
(* walk), normalize_date_label (truncation) and extend_dataset (gap        *)
(* filling), driven by message_handler.                                    *)
(*                                                                         *)
(* A datetime is a record of its seven naive components.  Indexes are      *)
(* Python's (0-based); sorted_documents[i] of the code is                  *)
(* sorted_documents[i + 1] here.                                           *)
(***************************************************************************)
EXTENDS Integers, Sequences, FiniteSets, TLC

\* ------------------------------------------------------------------ bounds

\* Largest number of documents in the loaded collection.
MaxDocs == 3
\* Number of messages handled in one run (caps the growth of the lru cache).
MaxRequests == 2

\* ------------------------------------------------------------ datetime

DT(y, mo, d, h, mi, s, us) ==
    [year |-> y, month |-> mo, day |-> d, hour |-> h, minute |-> mi,
     second |-> s, microsecond |-> us]

Fields == <<"year", "month", "day", "hour", "minute", "second", "microsecond">>

\* datetime.__lt__ on naive values: lexicographic on the components.
Less(a, b) ==
    \E k \in 1..Len(Fields) :
        /\ a[Fields[k]] < b[Fields[k]]
        /\ \A j \in 1..(k - 1) : a[Fields[j]] = b[Fields[j]]

LessEq(a, b) == ~Less(b, a)

IsLeap(y) == (y % 4 = 0 /\ y % 100 # 0) \/ y % 400 = 0

DaysInMonth(y, mo) ==
    IF mo = 2 THEN (IF IsLeap(y) THEN 29 ELSE 28)
    ELSE IF mo \in {4, 6, 9, 11} THEN 30 ELSE 31

\* datetime.isoformat(): the components in order, the microsecond left out
\* when it is 0.  The text is modelled by the sequence of the numbers it
\* prints.
isoformat(d) ==
    <<d.year, d.month, d.day, d.hour, d.minute, d.second>>
        \o (IF d.microsecond = 0 THEN <<>> ELSE <<d.microsecond>>)

\* d + relativedelta(days=1)
AddDay(d) ==
    IF d.day < DaysInMonth(d.year, d.month)
    THEN [d EXCEPT !.day = d.day + 1]
    ELSE IF d.month < 12
         THEN [d EXCEPT !.day = 1, !.month = d.month + 1]
         ELSE [d EXCEPT !.day = 1, !.month = 1, !.year = d.year + 1]

\* d + relativedelta(hours=1)
AddHour(d) ==
    IF d.hour < 23
    THEN [d EXCEPT !.hour = d.hour + 1]
    ELSE AddDay([d EXCEPT !.hour = 0])

\* d + relativedelta(months=1): the day is clipped to the new month's length.
AddMonth(d) ==
    LET y  == IF d.month = 12 THEN d.year + 1 ELSE d.year
        mo == IF d.month = 12 THEN 1 ELSE d.month + 1
        dd == IF d.day > DaysInMonth(y, mo) THEN DaysInMonth(y, mo) ELSE d.day
    IN  [d EXCEPT !.year = y, !.month = mo, !.day = dd]

\* current_date + relativedelta(**{group_type: 1}), group_type = value + "s"
relativedelta(d, g) ==
    CASE g = "hour"  -> AddHour(d)
      [] g = "day"   -> AddDay(d)
      [] g = "month" -> AddMonth(d)

\* --------------------------------------------------------------- inputs

GroupEnum == {"month", "day", "hour"}

\* The instants documents and queries are drawn from: two days around a
\* month end, three of them in the same hour of day, one off a bucket
\* boundary, one with a sub-second part.
Instants ==
    { DT(2022, 9, 30, 9, 30, 0, 0),
      DT(2022, 9, 30, 10, 0, 0, 0),
      DT(2022, 9, 30, 10, 40, 0, 0),
      DT(2022, 10, 1, 10, 20, 0, 0),
      DT(2022, 10, 1, 11, 0, 0, 500000) }

Values == {1, 2}

Document == [dt : Instants, value : Values]

InputModel ==
    { m \in [date_from : Instants, date_upto : Instants, group_type : GroupEnum] :
        LessEq(m.date_from, m.date_upto) }

\* ------------------------------------------------------------ the store

\* Insertion of x behind every element whose dt is not later (a stable sort).
RECURSIVE insert_sorted(_, _)
insert_sorted(s, x) ==
    IF s = <<>> THEN <<x>>
    ELSE IF Less(x.dt, Head(s).dt) THEN <<x>> \o s
    ELSE <<Head(s)>> \o insert_sorted(Tail(s), x)

\* sorted(bson_data, key=lambda x: x["dt"])
RECURSIVE sorted(_)
sorted(bson_data) ==
    IF bson_data = <<>> THEN <<>>
    ELSE insert_sorted(sorted(SubSeq(bson_data, 1, Len(bson_data) - 1)),
                       bson_data[Len(bson_data)])

\* --------------------------------------------------------------- locator

\* What get_index_by_date returns when its loop ends without a return.
None == -1

\* The loop without the look at the predecessor: any document at or after
\* the date is returned, not the first.
RECURSIVE binary_search_no_predecessor(_, _, _, _)
binary_search_no_predecessor(docs, date, left, right) ==
    IF left > right THEN None
    ELSE LET mid == (left + right) \div 2 IN
         IF ~Less(docs[mid + 1].dt, date)
         THEN mid
         ELSE binary_search_no_predecessor(docs, date, mid + 1, right)

\* The while loop of get_index_by_date.
RECURSIVE binary_search(_, _, _, _)
binary_search(docs, date, left, right) ==
    IF left > right THEN None
    ELSE LET mid == (left + right) \div 2 IN
         IF ~Less(docs[mid + 1].dt, date)
         THEN IF mid = 0 \/ Less(docs[mid].dt, date)
              THEN mid
              ELSE binary_search(docs, date, left, mid - 1)
         ELSE binary_search(docs, date, mid + 1, right)

\* The body of get_index_by_date.
get_index_by_date(docs, date) == binary_search(docs, date, 0, Len(docs) - 1)

EmptyCache == [d \in {} |-> None]

\* A cache that forgets its key: the last stored result is reused for any
\* argument.
lru_cache_get_any_key(c, docs, date) ==
    IF DOMAIN c # {} THEN c[CHOOSE d \in DOMAIN c : TRUE]
    ELSE get_index_by_date(docs, date)

\* @lru_cache(maxsize=None): the stored result when the argument was seen.
lru_cache_get(c, docs, date) ==
    IF date \in DOMAIN c THEN c[date] ELSE get_index_by_date(docs, date)

\* @lru_cache(maxsize=None): the cache after the call.
lru_cache_put(c, date, r) ==
    IF date \in DOMAIN c THEN c
    ELSE [d \in DOMAIN c \cup {date} |-> IF d = date THEN r ELSE c[d]]

\* ------------------------------------------------------------ truncation

order == [second |-> 0, minute |-> 0, hour |-> 0, day |-> 1, month |-> 1]
OrderKeys == <<"second", "minute", "hour", "day", "month">>

\* The loop of normalize_date_label: the keys before group_type.
RECURSIVE reset_params(_, _)
reset_params(k, g) ==
    IF k > Len(OrderKeys) \/ OrderKeys[k] = g THEN {}
    ELSE {OrderKeys[k]} \cup reset_params(k + 1, g)

\* date_label.replace(**reset_params)
normalize_date_label(date_label, g) ==
    [f \in DOMAIN date_label |->
        IF f \in reset_params(1, g) THEN order[f] ELSE date_label[f]]

\* ---------------------------------------------------------------- state

VARIABLES
    sorted_documents,   \* the loaded collection
    cache,              \* lru_cache of get_index_by_date
    pc,                 \* where message_handler / get_dataset is
    input_model,        \* the validated query
    start_index,        \* get_dataset: start_index
    date_anchor,        \* get_dataset: date_anchor
    result,             \* get_dataset: result (extend_dataset: existing_dataset)
    pos,                \* get_dataset: index of the next doc of the for loop
    extended,           \* extend_dataset: extended
    current_date,       \* extend_dataset: current_date
    outcome,            \* how get_dataset ended: "json", "None", "TypeError"
    requests,           \* messages handled so far
    call_date,          \* argument of the latest get_index_by_date call
    call_result,        \* what that call returned
    call_hit            \* whether the cache served it (cache_info().hits)

vars == <<sorted_documents, cache, pc, input_model, start_index, date_anchor,
          result, pos, extended, current_date, outcome, requests,
          call_date, call_result, call_hit>>

locals == <<input_model, start_index, date_anchor, result, pos, extended,
            current_date, outcome>>

NoDate == DT(0, 0, 0, 0, 0, 0, 0)
NoModel == [date_from |-> NoDate, date_upto |-> NoDate, group_type |-> "hour"]
NoSeries == [dataset |-> <<>>, labels |-> <<>>]

Locals ==
    /\ input_model = NoModel
    /\ start_index = None
    /\ date_anchor = 0
    /\ result = NoSeries
    /\ pos = 0
    /\ extended = NoSeries
    /\ current_date = NoDate
    /\ outcome = "pending"

Init ==
    /\ \E n \in 0..MaxDocs : \E bson_data \in [1..n -> Document] :
           sorted_documents = sorted(bson_data)
    /\ cache = EmptyCache
    /\ pc = "idle"
    /\ requests = 0
    /\ call_date = NoDate
    /\ call_result = None
    /\ call_hit = FALSE
    /\ Locals

\* -------------------------------------------------------------- actions

\* message_handler, lines 66-67: a message parses into an InputModel and
\* get_dataset is called with it.
message_handler(m) ==
    /\ pc = "idle"
    /\ requests < MaxRequests
    /\ input_model' = m
    /\ pc' = "get_dataset"
    /\ UNCHANGED <<sorted_documents, cache, start_index, date_anchor, result,
                   pos, extended, current_date, outcome, requests,
                   call_date, call_result, call_hit>>

\* get_dataset, line 79: start_index = get_index_by_date(date_from).
Locate ==
    /\ pc = "get_dataset"
    /\ LET r == lru_cache_get(cache, sorted_documents, input_model.date_from) IN
        /\ start_index' = r
        /\ call_result' = r
        /\ cache' = lru_cache_put(cache, input_model.date_from, r)
    /\ call_date' = input_model.date_from
    /\ call_hit' = (input_model.date_from \in DOMAIN cache)
    /\ pc' = "located"
    /\ UNCHANGED <<sorted_documents, input_model, date_anchor, result, pos,
                   extended, current_date, outcome, requests>>

\* get_dataset, lines 80-88: the first bucket is opened from the document at
\* start_index; sorted_documents[None] raises TypeError.
FirstBucket ==
    /\ pc = "located"
    /\ \/ /\ start_index = None
          /\ outcome' = "TypeError"
          /\ pc' = "answer"
          /\ UNCHANGED <<date_anchor, result, pos>>
       \/ /\ start_index # None
          /\ LET doc == sorted_documents[start_index + 1] IN
              /\ date_anchor' = doc.dt[input_model.group_type]
              /\ result' =
                    [dataset |-> <<doc.value>>,
                     labels  |-> <<isoformat(normalize_date_label(
                                        doc.dt, input_model.group_type))>>]
          /\ pos' = start_index + 1
          /\ pc' = "walk"
          /\ UNCHANGED outcome
    /\ UNCHANGED <<sorted_documents, cache, input_model, start_index, extended,
                   current_date, requests, call_date, call_result,
                   call_hit>>

\* get_dataset, lines 90-103: one iteration of the for loop over
\* sorted_documents[start_index + 1:], or its end (the function then falls
\* off its last line and returns None).
Walk ==
    /\ pc = "walk"
    /\ \/ /\ pos >= Len(sorted_documents)
          /\ outcome' = "None"
          /\ pc' = "answer"
          /\ UNCHANGED <<date_anchor, result, pos, extended, current_date>>
       \/ /\ pos < Len(sorted_documents)
          /\ Less(input_model.date_upto, sorted_documents[pos + 1].dt)
          \* return extend_dataset(result, input_model): lines 127-130
          /\ current_date' = input_model.date_from
          /\ extended' = NoSeries
          /\ pc' = "extend"
          /\ UNCHANGED <<date_anchor, result, pos, outcome>>
       \/ /\ pos < Len(sorted_documents)
          /\ ~Less(input_model.date_upto, sorted_documents[pos + 1].dt)
          /\ LET doc == sorted_documents[pos + 1] IN
              IF doc.dt[input_model.group_type] # date_anchor
              THEN /\ result' =
                        [dataset |-> Append(result.dataset, doc.value),
                         labels  |-> Append(result.labels,
                                        isoformat(normalize_date_label(
                                            doc.dt, input_model.group_type)))]
                   /\ date_anchor' = doc.dt[input_model.group_type]
              ELSE /\ result' =
                        [result EXCEPT !.dataset[Len(result.dataset)] =
                                            @ + doc.value]
                   /\ UNCHANGED date_anchor
          /\ pos' = pos + 1
          /\ UNCHANGED <<pc, extended, current_date, outcome>>
    /\ UNCHANGED <<sorted_documents, cache, input_model, start_index, requests,
                   call_date, call_result, call_hit>>

\* label in existing_dataset["labels"]
InLabels(label, labels) == \E k \in 1..Len(labels) : labels[k] = label

\* extend_dataset, lines 132-142: one iteration of the while loop, or its
\* end and the return of json.dumps(extended).
Extend ==
    /\ pc = "extend"
    /\ \/ /\ LessEq(current_date, input_model.date_upto)
          /\ IF ~InLabels(isoformat(normalize_date_label(
                              current_date, input_model.group_type)),
                          result.labels)
             THEN /\ extended' =
                        [dataset |-> Append(extended.dataset, 0),
                         labels  |-> Append(extended.labels,
                                            isoformat(current_date))]
                  /\ UNCHANGED result
             ELSE /\ extended' =
                        [dataset |-> Append(extended.dataset,
                                            Head(result.dataset)),
                         labels  |-> Append(extended.labels,
                                            Head(result.labels))]
                  /\ result' = [dataset |-> Tail(result.dataset),
                                labels  |-> Tail(result.labels)]
          /\ current_date' = relativedelta(current_date, input_model.group_type)
          /\ UNCHANGED <<pc, outcome>>
       \/ /\ ~LessEq(current_date, input_model.date_upto)
          /\ outcome' = "json"
          /\ pc' = "answer"
          /\ UNCHANGED <<result, extended, current_date>>
    /\ UNCHANGED <<sorted_documents, cache, input_model, start_index,
                   date_anchor, pos, requests, call_date, call_result,
                   call_hit>>

\* message_handler, lines 67-70: the text is answered, or help_msg when
\* get_dataset raised or returned no text; the call's locals are gone.
Answer ==
    /\ pc = "answer"
    /\ pc' = "idle"
    /\ requests' = requests + 1
    /\ input_model' = NoModel
    /\ start_index' = None
    /\ date_anchor' = 0
    /\ result' = NoSeries
    /\ pos' = 0
    /\ extended' = NoSeries
    /\ current_date' = NoDate
    /\ outcome' = "pending"
    /\ call_date' = NoDate
    /\ call_result' = None
    /\ call_hit' = FALSE
    /\ UNCHANGED <<sorted_documents, cache>>

Next ==
    \/ \E m \in InputModel : message_handler(m)
    \/ Locate
    \/ FirstBucket
    \/ Walk
    \/ Extend
    \/ Answer

Spec == Init /\ [][Next]_vars

\* A bare call of get_index_by_date(date), through its lru_cache.
CallGetIndexByDate(date) ==
    /\ pc = "idle"
    /\ LET r == lru_cache_get(cache, sorted_documents, date) IN
        /\ call_result' = r
        /\ cache' = lru_cache_put(cache, date, r)
    /\ call_date' = date
    /\ call_hit' = (date \in DOMAIN cache)
    /\ UNCHANGED <<sorted_documents, pc, requests, locals>>

NextLocator == \E date \in Instants : CallGetIndexByDate(date)

\* The locator alone: any sequence of calls against the loaded collection.
SpecLocator == Init /\ [][NextLocator]_vars

\* ------------------------------------------------- reference notions

\* The canonical start of the bucket of t: everything below the granularity
\* is zeroed (the day becomes 1 for a month).
Truncate(t, g) ==
    CASE g = "hour"  -> DT(t.year, t.month, t.day, t.hour, 0, 0, 0)
      [] g = "day"   -> DT(t.year, t.month, t.day, 0, 0, 0, 0)
      [] g = "month" -> DT(t.year, t.month, 1, 0, 0, 0, 0)

\* datetime.fromisoformat of a label.
fromisoformat(label) ==
    DT(label[1], label[2], label[3], label[4], label[5], label[6],
       IF Len(label) > 6 THEN label[7] ELSE 0)

RECURSIVE SumSeq(_)
SumSeq(s) == IF s = <<>> THEN 0 ELSE Head(s) + SumSeq(Tail(s))

InRange(doc, m) == LessEq(m.date_from, doc.dt) /\ LessEq(doc.dt, m.date_upto)

\* Sum of value over the documents with date_from <= dt <= date_upto.
RECURSIVE RangeSum(_, _)
RangeSum(docs, m) ==
    IF docs = <<>> THEN 0
    ELSE (IF InRange(Head(docs), m) THEN Head(docs).value ELSE 0)
            + RangeSum(Tail(docs), m)

\* Sum of value over the documents in range whose bucket starts at b.
RECURSIVE BucketSum(_, _, _)
BucketSum(docs, m, b) ==
    IF docs = <<>> THEN 0
    ELSE (IF InRange(Head(docs), m)
             /\ Truncate(Head(docs).dt, m.group_type) = b
          THEN Head(docs).value ELSE 0)
            + BucketSum(Tail(docs), m, b)

\* The boundaries b, b + 1 unit, ... that are <= upto.
RECURSIVE BoundariesFrom(_, _, _)
BoundariesFrom(b, upto, g) ==
    IF Less(upto, b) THEN <<>>
    ELSE <<b>> \o BoundariesFrom(relativedelta(b, g), upto, g)

\* b_k = truncate(from) + k units, for every b_k <= upto.
Boundaries(m) ==
    BoundariesFrom(Truncate(m.date_from, m.group_type), m.date_upto,
                   m.group_type)

\* The smallest index whose document is at or after q, None when there is
\* none.
LowerBound(docs, q) ==
    LET at == {i \in 0..(Len(docs) - 1) : ~Less(docs[i + 1].dt, q)} IN
    IF at = {} THEN None
    ELSE CHOOSE i \in at : \A j \in at : i <= j

Returned == pc = "answer" /\ outcome = "json"

\* The aggregation walk is over and extend_dataset has consumed nothing yet.
WalkOver ==
    \/ pc = "extend" /\ extended = NoSeries
    \/ pc = "answer" /\ outcome = "None"

AllZero(s) == \A k \in 1..Len(s) : s[k] = 0

\* ---------------------------------------------------------------- claims

\* C1: every entry of the series get_dataset returns holds the sum of the
\* values of exactly the documents in [from, upto] whose truncation is the
\* entry's bucket (0 when there is none).
DenseValuesAreBucketSums ==
    Returned =>
        \A k \in 1..Len(extended.dataset) :
            extended.dataset[k] =
                BucketSum(sorted_documents, input_model,
                          Truncate(fromisoformat(extended.labels[k]),
                                   input_model.group_type))

\* C2: bucket conservation: when the walk is over, the sparse series sums to
\* the sum of value over the documents with from <= dt <= upto.
BucketConservation ==
    WalkOver => SumSeq(result.dataset) = RangeSum(sorted_documents, input_model)

\* C3: get_index_by_date returns the smallest index whose document is at or
\* after the date, and None exactly when every document is before it: for
\* every date on the loaded collection, and for the call just computed.
LocatorCorrect ==
    /\ \A q \in Instants :
          LET r == get_index_by_date(sorted_documents, q) IN
          /\ r = LowerBound(sorted_documents, q)
          /\ r = None <=>
                \A i \in 1..Len(sorted_documents) :
                    Less(sorted_documents[i].dt, q)
    /\ (call_date # NoDate /\ ~call_hit) =>
          call_result = LowerBound(sorted_documents, call_date)

\* C3 witness: a computed call met documents sharing the date and returned
\* the first of them, which is not the first document.
LocatorTieWitness ==
    /\ call_date # NoDate /\ ~call_hit
    /\ call_result # None /\ call_result > 0
    /\ call_result + 2 <= Len(sorted_documents)
    /\ sorted_documents[call_result + 1].dt = call_date
    /\ sorted_documents[call_result + 2].dt = call_date

\* C4: when no document is at or after from, get_dataset returns one entry
\* per boundary of the range, every value 0.
NotFoundGivesZeros ==
    (/\ pc = "answer"
     /\ \A i \in 1..Len(sorted_documents) :
            Less(sorted_documents[i].dt, input_model.date_from))
    => /\ outcome = "json"
       /\ Len(extended.dataset) = Len(Boundaries(input_model))
       /\ AllZero(extended.dataset)

\* C5: the returned series has exactly one entry per boundary
\* b_k = truncate(from) + k units <= upto, in order, labelled b_k.
DenseLabelsAreBoundaries ==
    Returned =>
        /\ Len(extended.dataset) = Len(Boundaries(input_model))
        /\ extended.labels =
              [k \in 1..Len(Boundaries(input_model)) |->
                  isoformat(Boundaries(input_model)[k])]

\* C6: whenever the start index is found, get_dataset returns the densified
\* series, also when the walk reaches the end of the collection.
FoundStartReturnsSeries ==
    (pc = "answer" /\ start_index # None) => outcome = "json"

\* C7: for a range entirely before the first document, every value of the
\* series get_dataset returns is 0.
BeforeAllDataGivesZeros ==
    (/\ Returned
     /\ sorted_documents # <<>>
     /\ Less(input_model.date_upto, sorted_documents[1].dt))
    => AllZero(extended.dataset)

\* C8: memoisation is not observable: every stored result, and the result of
\* the latest call, is what the search without a cache returns for that date.
MemoizationTransparent ==
    /\ \A d \in DOMAIN cache :
          cache[d] = get_index_by_date(sorted_documents, d)
    /\ call_date # NoDate =>
          call_result = get_index_by_date(sorted_documents, call_date)

\* C8 witness: the cache holds several dates and served the latest call,
\* which found a document.
MemoHitWitness ==
    /\ call_hit
    /\ Cardinality(DOMAIN cache) >= 2
    /\ call_result # None /\ call_result > 0

\* C9: in a step of the walk, the document's value is added to the current
\* bucket iff the document truncates to the current bucket's key; otherwise
\* a new bucket is opened.
FoldIffSameBucket ==
    [][ (pc = "walk" /\ pc' = "walk") =>
          ( (Len(result'.dataset) = Len(result.dataset))
            <=> (Truncate(sorted_documents[pos + 1].dt,
                          input_model.group_type)
                   = Truncate(fromisoformat(result.labels[Len(result.labels)]),
                              input_model.group_type)) ) ]_vars

\* C10: when the loop of extend_dataset ends, no entry of the sparse series
\* is left unconsumed.
SparseFullyConsumed ==
    Returned => result.labels = <<>> /\ result.dataset = <<>>

====
